---- MODULE Spec2Model ----
(***************************************************************************)
(* Model of demo/demo_embeddings_tf.py: the text-to-image demo that reads  *)
(* sentences from a file, embeds them, samples images from the two-stage   *)
(* generator in batches and writes one annotated grid image per sentence.  *)
(*                                                                         *)
(* Python strings are tuples of one-character strings; Python indices are  *)
(* kept 0-based (At, Slice).                                               *)
(***************************************************************************)
EXTENDS Integers, Sequences, FiniteSets, TLC

VARIABLES
    texts,              \* f.readlines() of the caption file
    cfgBatchSize,       \* cfg.TEST.BATCH_SIZE
    caption_path,       \* args.caption_path
    argSaveDir,         \* args.save_dir (None when the flag is absent)
    ckt_path,           \* cfg.TEST.PRETRAINED_MODEL
    ckptOnDisk,         \* whether the checkpoint file ckt_path names exists
    harness,            \* "main", or the function a driver calls directly
    pc,                 \* position in the program
    error,              \* the exception that ended the run ("" if none)
    normalized_texts,
    embeddings,
    num_embeddings,
    batch_size,
    save_dir,
    count,
    iend,
    embeddings_batch,
    text_batch,
    batch,              \* number of loop iterations begun
    sessions,           \* tf.Session objects created by GenerativeModel
    restores,           \* saver.restore calls that succeeded
    graph,              \* the conditioning nodes build_model put in the graph
    n,                  \* generate_n's n
    i,                  \* generate_n's loop index
    genCalls,           \* generate calls begun
    lr_samples_batchs,
    hr_samples_batchs,
    super_images,       \* what the last save_super_images call returned
    files,              \* image files on disk
    dirs,               \* directories on disk
    trace,              \* session / restore / generate / write events, in order
    cfgIm,              \* <<cfg.TEST.LR_IMSIZE, cfg.TEST.HR_IMSIZE>>
    cond                \* the conditioning sampler's driver state

vars == <<texts, cfgBatchSize, caption_path, argSaveDir, ckt_path, ckptOnDisk,
          harness, pc, error, normalized_texts, embeddings, num_embeddings,
          batch_size, save_dir, count, iend, embeddings_batch, text_batch,
          batch, sessions, restores, graph, n, i, genCalls, lr_samples_batchs,
          hr_samples_batchs, super_images, files, dirs, trace, cfgIm, cond>>

----------------------------------------------------------------------------
(* Bounds of the model *)

MaxLines == 3           \* lines in the caption file
MaxBatch == 3           \* cfg.TEST.BATCH_SIZE ranges over 1..MaxBatch
MaxN == 18              \* generate_n's n ranges over 0..MaxN in its driver

(* Program constants *)

MaxSamples == 16        \* np.minimum(16, n)
DefaultN == 8           \* def generate_n(self, embeddings, n=8)
RowLen == 8             \* samples per group of the grid
MidPad == 64            \* mid_padding rows
TopPad == 128           \* top_padding rows

----------------------------------------------------------------------------
(* Python helpers *)

None == "None"

Truthy(x) == x # None /\ x # <<>>

Minimum(a, b) == IF a < b THEN a ELSE b

SetMin(S) == CHOOSE x \in S : \A y \in S : x <= y

SetMax(S) == CHOOSE x \in S : \A y \in S : x >= y

At(s, k) == s[k + 1]

Range(s) == {s[k] : k \in 1..Len(s)}

\* s[a:b] for 0 <= a <= b <= len(s)
Slice(s, a, b) == SubSeq(s, a + 1, b)

\* str.find with the start index ignored
Find_FromStart(s, sub, start) ==
    LET hits == {k \in 0..(Len(s) - Len(sub)) :
                    SubSeq(s, k + 1, k + Len(sub)) = sub}
    IN  IF hits = {} THEN -1 ELSE SetMin(hits)

\* str.find(sub, start): the lowest index >= start where sub occurs, or -1
Find(s, sub, start) ==
    LET hits == {k \in start..(Len(s) - Len(sub)) :
                    SubSeq(s, k + 1, k + Len(sub)) = sub}
    IN  IF hits = {} THEN -1 ELSE SetMin(hits)

\* str.rfind(sub)
RFind(s, sub) ==
    LET hits == {k \in 0..(Len(s) - Len(sub)) :
                    SubSeq(s, k + 1, k + Len(sub)) = sub}
    IN  IF hits = {} THEN -1 ELSE SetMax(hits)

RECURSIVE RStrip(_, _)
RStrip(s, ch) ==
    IF s # <<>> /\ s[Len(s)] = ch THEN RStrip(SubSeq(s, 1, Len(s) - 1), ch)
    ELSE s

\* os.path.dirname
Dirname(p) ==
    LET head == Slice(p, 0, RFind(p, <<"/">>) + 1)
    IN  IF head # <<>> /\ \E k \in 1..Len(head) : head[k] # "/"
        THEN RStrip(head, "/") ELSE head

----------------------------------------------------------------------------
(* Text *)

Letters == {"a", "b", "A", "B"}
Whitespace == {" ", "\n"}

Lower(ch) == CASE ch = "A" -> "a" [] ch = "B" -> "b" [] OTHER -> ch

RECURSIVE LStripWs(_)
LStripWs(s) == IF s # <<>> /\ s[1] \in Whitespace THEN LStripWs(Tail(s)) ELSE s

RECURSIVE RStripWs(_)
RStripWs(s) ==
    IF s # <<>> /\ s[Len(s)] \in Whitespace
    THEN RStripWs(SubSeq(s, 1, Len(s) - 1)) ELSE s

\* embedding.preprocessing.normalize: case and whitespace normalisation
normalize(text) ==
    LET t == RStripWs(LStripWs(text)) IN [k \in 1..Len(t) |-> Lower(t[k])]

\* re.search('[a-zA-Z]+', text)
HasAlpha(text) == \E k \in 1..Len(text) : text[k] \in Letters

\* Model.embed: one row per input text, in input order
embed(text) == [k \in 1..Len(text) |-> [row |-> k - 1, of |-> text[k]]]

(* Inputs *)

LineSet == { <<"\n">>, <<"1", "\n">>, <<" ", "A", "\n">>, <<"b", " ", "1", "\n">> }

TextFiles == UNION {[1..len -> LineSet] : len \in 0..MaxLines}

CaptionPaths == { <<"c">>, <<"d", "/", "c">> }

SaveDirArgs == { None, <<"o">> }

CkptExt == <<".", "c", "k", "p", "t">>

\* <<cfg.TEST.PRETRAINED_MODEL, whether that file exists>>
CkptInputs == { <<<<>>, FALSE>>, <<<<"m">>, TRUE>>,
                <<<<"m">> \o CkptExt, TRUE>>, <<<<"m">> \o CkptExt, FALSE>> }

ImSizes == { <<64, 256>> }

----------------------------------------------------------------------------
(* Images: an array is its height, its width and the cells laid out in it *)

PadCell(kind, h, w) ==
    [y |-> 0, x |-> 0, h |-> h, w |-> w, kind |-> kind, res |-> "pad",
     call |-> -1, row |-> -1]

\* 255 + np.zeros(shape), np.zeros(shape)
Filled(kind, h, w) == [h |-> h, w |-> w, cells |-> {PadCell(kind, h, w)}]

\* a generated sample as an array of its own shape
SampleImage(s, kind) ==
    [h |-> s.h, w |-> s.w,
     cells |-> {[y |-> 0, x |-> 0, h |-> s.h, w |-> s.w, kind |-> kind,
                 res |-> s.res, call |-> s.call, row |-> s.row]}]

\* scipy.misc.imresize(img, (h, w)) of a single sample
imresize(s, h, w) == SampleImage([s EXCEPT !.h = h, !.w = w], "lr_resized")

\* (hr_img + 1.0) * 127.5
Rescale(s) == SampleImage(s, "hr")

Shift(img, dy, dx) == {[c EXCEPT !.y = c.y + dy, !.x = c.x + dx] : c \in img.cells}

RECURSIVE ConcatAxis1(_)
\* np.concatenate(list, axis=1): side by side
ConcatAxis1(list) ==
    IF Len(list) = 1 THEN list[1]
    ELSE LET left == ConcatAxis1(SubSeq(list, 1, Len(list) - 1))
             last == list[Len(list)]
         IN  [h |-> left.h, w |-> left.w + last.w,
              cells |-> left.cells \cup Shift(last, 0, left.w)]

RECURSIVE ConcatAxis0(_)
\* np.concatenate(list, axis=0): one below the other
ConcatAxis0(list) ==
    IF Len(list) = 1 THEN list[1]
    ELSE LET top == ConcatAxis0(SubSeq(list, 1, Len(list) - 1))
             last == list[Len(list)]
         IN  [h |-> top.h + last.h, w |-> top.w,
              cells |-> top.cells \cup Shift(last, top.h, 0)]

\* superimage2 = np.zeros_like(canvas); superimage2[:block.h, :block.w] = block
PasteOnZeros(canvas, block) ==
    [h |-> canvas.h, w |-> canvas.w,
     cells |-> block.cells
        \cup (IF block.w < canvas.w
              THEN {[PadCell("zeros", canvas.h, canvas.w - block.w)
                        EXCEPT !.x = block.w]}
              ELSE {})
        \cup (IF block.h < canvas.h
              THEN {[PadCell("zeros", canvas.h - block.h, block.w)
                        EXCEPT !.y = block.h]}
              ELSE {})]

\* the two rows with the stages exchanged
GroupRows_Swapped(lr_sample_batchs, hr_sample_batchs, j, lo, hi, img_shape) ==
    LET padding == Filled("white", img_shape[1], img_shape[2])
        hr_img(k) == At(At(hr_sample_batchs, k), j)
        lr_img(k) == At(At(lr_sample_batchs, k), j)
        row1 == <<padding>> \o [k \in 1..(hi - lo) |-> Rescale(hr_img(lo + k - 1))]
        row2 == <<padding>> \o
                [k \in 1..(hi - lo) |->
                    imresize(lr_img(lo + k - 1), hr_img(lo + k - 1).h,
                             hr_img(lo + k - 1).w)]
    IN  ConcatAxis0(<<ConcatAxis1(row1), ConcatAxis1(row2)>>)

\* the two rows of one group: samples lo..hi-1 of sentence j
GroupRows(lr_sample_batchs, hr_sample_batchs, j, lo, hi, img_shape) ==
    LET padding == Filled("white", img_shape[1], img_shape[2])
        hr_img(k) == At(At(hr_sample_batchs, k), j)
        lr_img(k) == At(At(lr_sample_batchs, k), j)
        row1 == <<padding>> \o
                [k \in 1..(hi - lo) |->
                    imresize(lr_img(lo + k - 1), hr_img(lo + k - 1).h,
                             hr_img(lo + k - 1).w)]
        row2 == <<padding>> \o [k \in 1..(hi - lo) |-> Rescale(hr_img(lo + k - 1))]
    IN  ConcatAxis0(<<ConcatAxis1(row1), ConcatAxis1(row2)>>)

\* the grid of sentence j, before the caption is drawn
SuperImage(lr_sample_batchs, hr_sample_batchs, j, img_shape) ==
    LET len == Len(lr_sample_batchs)
        first == GroupRows(lr_sample_batchs, hr_sample_batchs, j, 0,
                           Minimum(RowLen, len), img_shape)
        grid == IF len > RowLen
                THEN LET super_row == GroupRows(lr_sample_batchs, hr_sample_batchs,
                                                j, RowLen, len, img_shape)
                         superimage2 == PasteOnZeros(first, super_row)
                         mid_padding == Filled("zeros", MidPad, first.w)
                     IN  ConcatAxis0(<<first, mid_padding, superimage2>>)
                ELSE first
        top_padding == Filled("white", TopPad, grid.w)
    IN  ConcatAxis0(<<top_padding, grid>>)

SplitAt == 60

\* drawCaption: the stage labels and the caption, on one line or two
drawCaption(img, caption) ==
    LET idx == Find(caption, <<" ">>, SplitAt)
        labels == {[text |-> "Stage-I", x |-> 10, y |-> 256],
                   [text |-> "Stage-II", x |-> 10, y |-> 512]}
                  \cup (IF img.h > 832
                        THEN {[text |-> "Stage-I", x |-> 10, y |-> 832],
                              [text |-> "Stage-II", x |-> 10, y |-> 1088]}
                        ELSE {})
        lines == IF idx = -1
                 THEN {[text |-> caption, x |-> 256, y |-> 10]}
                 ELSE {[text |-> Slice(caption, 0, idx), x |-> 256, y |-> 10],
                       [text |-> Slice(caption, idx + 1, Len(caption)),
                        x |-> 256, y |-> 60]}
    IN  [image |-> img, labels |-> labels, lines |-> lines, caption |-> caption]

\* the sentences of the batch that get an image: range(batch_size) minus the
\* texts with no letter
Drawn(texts_batch, size) == {j \in 0..(size - 1) : HasAlpha(At(texts_batch, j))}

\* the name taken from the position in the batch alone
FullPath_NoStartID(dir, startID, j) == [dir |-> dir, name |-> j]

\* '%s/sentence%d.jpg' % (save_dir, startID + j)
FullPath(dir, startID, j) == [dir |-> dir, name |-> startID + j]

\* whether the image is written to disk: if save_dir
Saves(dir) == Truthy(dir)

\* the image of sentence j of the batch
Annotated(lr_sample_batchs, hr_sample_batchs, texts_batch, j) ==
    LET first == At(At(hr_sample_batchs, 0), 0)
    IN  drawCaption(SuperImage(lr_sample_batchs, hr_sample_batchs, j,
                               <<first.h, first.w>>),
                    At(texts_batch, j))

RECURSIVE Ascending(_)
\* the members of S in the order range() visits them
Ascending(S) ==
    IF S = {} THEN <<>>
    ELSE LET m == SetMax(S) IN Append(Ascending(S \ {m}), m)

\* scipy.misc.imsave over the batch: a later write replaces the file
WriteAll(fs, new) ==
    {f \in fs : \A g \in new : g.path # f.path} \cup new

----------------------------------------------------------------------------
(* The generator graph *)

Scopes == {"g_net", "hr_g_net"}

\* one sample_encoded_context call recorded in the graph: its variable scope
\* and its bAugmentation (default True)
Node(scope, bAugmentation) == [scope |-> scope, bAugmentation |-> bAugmentation]

\* build_model: the two conditioning nodes and the image sizes of the stages
BuildGraph(im) ==
    LET hr_lr_ratio == im[2] \div im[1]
    IN  [c |-> Node("g_net", TRUE), hr_c |-> Node("hr_g_net", TRUE),
         lr_imsize |-> im[1], hr_imsize |-> im[1] * hr_lr_ratio]

NoGraph == [c |-> Node("", FALSE), hr_c |-> Node("", FALSE),
            lr_imsize |-> 0, hr_imsize |-> 0]

\* ckt_path.find('.ckpt') != -1
NamesCheckpoint(path) == Find(path, CkptExt, 0) # -1

\* what one session.run returns for the batch: a sample per embedding row
Samples(res, h, w, call, sess, batch_rows) ==
    [k \in 1..Len(batch_rows) |->
        [res |-> res, call |-> call, sess |-> sess, row |-> batch_rows[k].row,
         h |-> h, w |-> w]]

----------------------------------------------------------------------------
(* The main program *)

NoCall == [scope |-> "", bAugmentation |-> FALSE, epsilon |-> 0, c |-> 0]

NoCond == [embeddings |-> 0, model |-> <<>>, ran |-> FALSE, c |-> 0, hr_c |-> 0,
           epsilon |-> <<0, 0>>, call |-> NoCall, fixed |-> {}]

Blank ==
    /\ normalized_texts = <<>> /\ embeddings = <<>> /\ num_embeddings = 0
    /\ batch_size = 0 /\ save_dir = None /\ count = 0 /\ iend = 0
    /\ embeddings_batch = <<>> /\ text_batch = <<>> /\ batch = 0
    /\ sessions = 0 /\ restores = 0 /\ graph = NoGraph
    /\ n = 0 /\ i = 0 /\ genCalls = 0
    /\ lr_samples_batchs = <<>> /\ hr_samples_batchs = <<>>
    /\ super_images = <<>> /\ files = {} /\ trace = <<>> /\ error = ""

Init ==
    /\ texts \in TextFiles
    /\ cfgBatchSize \in 1..MaxBatch
    /\ caption_path \in CaptionPaths
    /\ argSaveDir \in SaveDirArgs
    /\ \E ck \in CkptInputs : ckt_path = ck[1] /\ ckptOnDisk = ck[2]
    /\ cfgIm \in ImSizes
    /\ harness = "main"
    /\ pc = "embed"
    /\ dirs = {Dirname(caption_path)}
    /\ cond = NoCond
    /\ Blank

inputsNoCond == <<texts, cfgBatchSize, caption_path, argSaveDir, ckt_path,
                  ckptOnDisk, harness, cfgIm>>

inputs == <<inputsNoCond, cond>>

\* an entry of the trace: the call, and the loop iteration and the batch range
\* [count, iend) it was made in (all 0 before the loop)
Event(op) == [op |-> op, batch |-> batch, lo |-> count, hi |-> iend]

\* embed_text
EmbedText ==
    /\ pc = "embed"
    /\ normalized_texts' = [k \in 1..Len(texts) |-> normalize(texts[k])]
    /\ embeddings' = embed(normalized_texts')
    /\ num_embeddings' = Len(normalized_texts')
    /\ pc' = "check"
    /\ UNCHANGED <<inputs, error, batch_size, save_dir, count, iend,
                   embeddings_batch, text_batch, batch, sessions, restores,
                   graph, n, i, genCalls, lr_samples_batchs, hr_samples_batchs,
                   super_images, files, dirs, trace>>

\* the check with < for <=
TooFew_Strict(num) == num < 0

\* if num_embeddings <= 0
TooFew(num) == num <= 0

\* the num_embeddings check and batch_size
CheckEmbeddings ==
    /\ pc = "check"
    /\ IF TooFew(num_embeddings)
       THEN /\ pc' = "raised"
            /\ error' = "ValueError"
            /\ UNCHANGED batch_size
       ELSE /\ batch_size' = Minimum(num_embeddings, cfgBatchSize)
            /\ pc' = "model"
            /\ UNCHANGED error
    /\ UNCHANGED <<inputs, normalized_texts, embeddings, num_embeddings,
                   save_dir, count, iend, embeddings_batch, text_batch, batch,
                   sessions, restores, graph, n, i, genCalls,
                   lr_samples_batchs, hr_samples_batchs, super_images, files,
                   dirs, trace>>

\* GenerativeModel.__init__ and build_model: the session, the graph, the
\* checkpoint
CreateModel ==
    /\ pc = "model"
    /\ sessions' = sessions + 1
    /\ graph' = BuildGraph(cfgIm)
    /\ IF NamesCheckpoint(ckt_path)
       THEN IF ckptOnDisk
            THEN /\ restores' = restores + 1
                 /\ trace' = trace \o <<Event("session"),
                                        Event("restore")>>
                 /\ pc' = "save_dir"
                 /\ UNCHANGED error
            ELSE /\ pc' = "raised"
                 /\ error' = "RestoreError"
                 /\ trace' = Append(trace, Event("session"))
                 /\ UNCHANGED restores
       ELSE /\ pc' = "save_dir"
            /\ trace' = Append(trace, Event("session"))
            /\ UNCHANGED <<restores, error>>
    /\ UNCHANGED <<inputs, normalized_texts, embeddings, num_embeddings,
                   batch_size, save_dir, count, iend, embeddings_batch,
                   text_batch, batch, n, i, genCalls, lr_samples_batchs,
                   hr_samples_batchs, super_images, files, dirs>>

\* args.save_dir if args.save_dir else os.path.dirname(args.caption_path)
ChooseSaveDir(arg, path) == IF Truthy(arg) THEN arg ELSE Dirname(path)

SetSaveDir ==
    /\ pc = "save_dir"
    /\ save_dir' = ChooseSaveDir(argSaveDir, caption_path)
    /\ count' = 0
    /\ pc' = "loop"
    /\ UNCHANGED <<inputs, error, normalized_texts, embeddings, num_embeddings,
                   batch_size, iend, embeddings_batch, text_batch, batch,
                   sessions, restores, graph, n, i, genCalls,
                   lr_samples_batchs, hr_samples_batchs, super_images, files,
                   dirs, trace>>

\* the realignment with count left where it was
BatchRange_CountKept(cnt, size, num) ==
    IF cnt + size > num THEN <<cnt, num>> ELSE <<cnt, cnt + size>>

\* the batch [count, iend) of one iteration, realigned when it would run past
\* the end
BatchRange(cnt, size, num) ==
    IF cnt + size > num THEN <<num - size, num>> ELSE <<cnt, cnt + size>>

\* while count < num_embeddings: the batch, and the call of generate_n
BeginBatch ==
    /\ pc = "loop"
    /\ count < num_embeddings
    /\ LET r == BatchRange(count, batch_size, num_embeddings)
       IN  /\ count' = r[1]
           /\ iend' = r[2]
           /\ embeddings_batch' = Slice(embeddings, r[1], r[2])
           /\ text_batch' = Slice(normalized_texts, r[1], r[2])
    /\ batch' = batch + 1
    /\ n' = DefaultN
    /\ i' = 0
    /\ lr_samples_batchs' = <<>>
    /\ hr_samples_batchs' = <<>>
    /\ pc' = "generate_n"
    /\ UNCHANGED <<inputs, error, normalized_texts, embeddings, num_embeddings,
                   batch_size, save_dir, sessions, restores, graph, genCalls,
                   super_images, files, dirs, trace>>

\* the loop ends
Finish ==
    /\ pc = "loop"
    /\ ~(count < num_embeddings)
    /\ pc' = "done"
    /\ UNCHANGED <<inputs, error, normalized_texts, embeddings, num_embeddings,
                   batch_size, save_dir, count, iend, embeddings_batch,
                   text_batch, batch, sessions, restores, graph, n, i, genCalls,
                   lr_samples_batchs, hr_samples_batchs, super_images, files,
                   dirs, trace>>

\* the range without the cap
Rounds_NoCap(num) == IF num < 0 THEN 0 ELSE num

\* range(np.minimum(16, n))
Rounds(num) == IF Minimum(MaxSamples, num) < 0 THEN 0 ELSE Minimum(MaxSamples, num)

\* hr_samples, samples = self.generate(embeddings) and the two appends
Appended(lr_batchs, hr_batchs, hr_samples, lr_samples) ==
    <<Append(lr_batchs, lr_samples), Append(hr_batchs, hr_samples)>>

\* one iteration of generate_n: a generate call on the persistent session
Generate ==
    /\ pc = "generate_n"
    /\ i < Rounds(n)
    /\ genCalls' = genCalls + 1
    /\ trace' = Append(trace, Event("generate"))
    /\ IF restores = 0
       THEN \* the variables were never restored: session.run fails
            /\ pc' = "raised"
            /\ error' = "FailedPreconditionError"
            /\ UNCHANGED <<i, lr_samples_batchs, hr_samples_batchs>>
       ELSE LET hr_samples == Samples("hr", graph.hr_imsize, graph.hr_imsize,
                                      genCalls + 1,
                                      sessions, embeddings_batch)
                lr_samples == Samples("lr", graph.lr_imsize, graph.lr_imsize,
                                      genCalls + 1,
                                      sessions, embeddings_batch)
                lists == Appended(lr_samples_batchs, hr_samples_batchs,
                                  hr_samples, lr_samples)
            IN  /\ lr_samples_batchs' = lists[1]
                /\ hr_samples_batchs' = lists[2]
                /\ i' = i + 1
                /\ UNCHANGED <<pc, error>>
    /\ UNCHANGED <<inputs, normalized_texts, embeddings, num_embeddings,
                   batch_size, save_dir, count, iend, embeddings_batch,
                   text_batch, batch, sessions, restores, graph, n,
                   super_images, files, dirs>>

\* generate_n returns
Return ==
    /\ pc = "generate_n"
    /\ ~(i < Rounds(n))
    /\ pc' = IF harness = "main" THEN "save" ELSE "returned"
    /\ UNCHANGED <<inputs, error, normalized_texts, embeddings, num_embeddings,
                   batch_size, save_dir, count, iend, embeddings_batch,
                   text_batch, batch, sessions, restores, graph, n, i, genCalls,
                   lr_samples_batchs, hr_samples_batchs, super_images, files,
                   dirs, trace>>

\* the step of one sentence for the step of a batch
Advance_ByOne(cnt, size) == cnt + 1

\* count += batch_size
Advance(cnt, size) == cnt + size

\* save_super_images(lr_samples_batch, hr_samples_batch, text_batch,
\* batch_size, startID=count, save_dir=save_dir), then count += batch_size
SaveSuperImages ==
    /\ pc = "save"
    /\ IF Len(hr_samples_batchs) = 0
       THEN /\ pc' = "raised"
            /\ error' = "IndexError"
            /\ UNCHANGED <<dirs, super_images, files, count, trace>>
       ELSE LET js == Ascending(Drawn(text_batch, batch_size))
                image(j) == Annotated(lr_samples_batchs, hr_samples_batchs,
                                      text_batch, j)
                written == {[path |-> FullPath(save_dir, count, js[k]),
                             content |-> image(js[k])] : k \in 1..Len(js)}
            IN  /\ dirs' = IF Truthy(save_dir) THEN dirs \cup {save_dir} ELSE dirs
                /\ super_images' = [k \in 1..Len(js) |-> image(js[k])]
                /\ files' = IF Saves(save_dir) THEN WriteAll(files, written)
                            ELSE files
                /\ trace' = Append(trace, Event("write"))
                /\ count' = IF harness = "main" THEN Advance(count, batch_size)
                            ELSE count
                /\ pc' = IF harness = "main" THEN "loop" ELSE "returned"
                /\ UNCHANGED error
    /\ UNCHANGED <<inputs, normalized_texts, embeddings, num_embeddings,
                   batch_size, save_dir, iend, embeddings_batch, text_batch,
                   batch, sessions, restores, graph, n, i, genCalls,
                   lr_samples_batchs, hr_samples_batchs>>

Next ==
    \/ EmbedText
    \/ CheckEmbeddings
    \/ CreateModel
    \/ SetSaveDir
    \/ BeginBatch
    \/ Finish
    \/ Generate
    \/ Return
    \/ SaveSuperImages

Spec == Init /\ [][Next]_vars

----------------------------------------------------------------------------
(* Claims about the main program *)

\* indices of the input lines whose normalized text has a letter
AlphaLines == {k \in 0..(Len(texts) - 1) : HasAlpha(normalize(At(texts, k)))}

\* the sample cells of an image
SampleCells(img) == {c \in img.cells : c.res # "pad"}

\* the batch a loop iteration works on is set
InBatch == harness = "main" /\ pc \in {"generate_n", "save"}

\* the number of iterations the loop makes
NumBatches == (num_embeddings + batch_size - 1) \div batch_size

\* C1: after the main loop has run to completion on a non-empty input file,
\* the number of distinct image files written equals the number of input
\* lines whose normalized text has an alphabetic character.
C1_OneFilePerAlphaLine ==
    (harness = "main" /\ pc = "done" /\ Len(texts) >= 1)
        => Cardinality({f.path : f \in files}) = Cardinality(AlphaLines)

\* C2: with batch_size = min(num_embeddings, cfg.TEST.BATCH_SIZE), every
\* iteration's range [count, iend) has 0 <= count, iend <= num_embeddings and
\* iend - count = batch_size; when num_embeddings is not a multiple of
\* batch_size the last batch is [num_embeddings - batch_size, num_embeddings).
C2_BatchRange ==
    InBatch =>
        /\ batch_size = Minimum(num_embeddings, cfgBatchSize)
        /\ 0 <= count
        /\ iend <= num_embeddings
        /\ iend - count = batch_size
        /\ batch <= NumBatches
        /\ (batch = NumBatches /\ num_embeddings % batch_size # 0)
              => (count = num_embeddings - batch_size /\ iend = num_embeddings)
        /\ (batch < NumBatches \/ num_embeddings % batch_size = 0)
              => count = (batch - 1) * batch_size
        /\ Len(text_batch) = batch_size
        /\ Len(embeddings_batch) = batch_size

C2_Witness ==
    /\ InBatch /\ pc = "save"
    /\ num_embeddings % batch_size # 0
    /\ batch = NumBatches /\ batch > 1
    /\ count = num_embeddings - batch_size
    /\ iend = num_embeddings

\* C3: the file sentence<k>.jpg holds the image of line k: its caption is the
\* normalized text of line k and every sample in it was generated from
\* embedding row k, in every batch including the realigned last one.
C3_FileNamedByLine ==
    \A f \in files :
        /\ f.path.name \in 0..(num_embeddings - 1)
        /\ f.path.dir = save_dir
        /\ f.content.caption = At(normalized_texts, f.path.name)
        /\ f.content.caption = normalize(At(texts, f.path.name))
        /\ SampleCells(f.content.image) # {}
        /\ \A c \in SampleCells(f.content.image) : c.row = f.path.name

\* a file of the overlap was written again by the realigned last batch
C3_Witness ==
    /\ harness = "main" /\ pc = "done"
    /\ num_embeddings % batch_size # 0 /\ batch > 1
    /\ \E f \in files :
          /\ f.path.name = num_embeddings - batch_size
          /\ \A c \in SampleCells(f.content.image) : c.call > (batch - 1) * DefaultN
    /\ \E f \in files : f.path.name = 0

\* C4: with no --save_dir, every sentence with alphabetic content has its
\* image written to the directory of the caption file, also when the caption
\* path is a bare file name.
C4_DefaultsToCaptionDir ==
    (harness = "main" /\ pc = "done" /\ argSaveDir = None)
        => \A k \in AlphaLines :
              \E f \in files : f.path = [dir |-> Dirname(caption_path), name |-> k]

\* C5: when cfg.TEST.PRETRAINED_MODEL is missing or names no '.ckpt'
\* checkpoint, the program raises once build_model has seen the path: no
\* generate call is executed and no image is written.
C5_InvalidCheckpointRaises ==
    (harness = "main" /\ sessions > 0
        /\ (~NamesCheckpoint(ckt_path) \/ ~ckptOnDisk))
        => (pc = "raised" /\ genCalls = 0 /\ files = {})

\* C6 as stated: with no line of alphabetic content the program raises
\* before the generator is built and never completes normally.
C6_NoValidSentenceRaises ==
    (harness = "main" /\ AlphaLines = {} /\ pc \notin {"embed", "check"})
        => (pc = "raised" /\ error = "ValueError" /\ sessions = 0 /\ genCalls = 0)

\* C6 amended: with zero input lines the program raises ValueError before the
\* generator is built or any generation runs, and never completes normally;
\* lines without alphabetic content are counted as embeddings, so a file
\* holding only such lines is not rejected, and gets no image file.
C6_NoLineRaises ==
    /\ (harness = "main" /\ Len(texts) = 0 /\ pc \notin {"embed", "check"})
          => (pc = "raised" /\ error = "ValueError" /\ sessions = 0
                /\ genCalls = 0 /\ files = {})
    /\ (harness = "main" /\ Len(texts) >= 1)
          => (error # "ValueError"
                /\ (pc \notin {"embed", "check", "model"} => sessions = 1))
    /\ (harness = "main" /\ AlphaLines = {}) => files = {}

C6_Witness ==
    /\ harness = "main" /\ Len(texts) = 0
    /\ pc = "raised" /\ error = "ValueError" /\ sessions = 0

\* the trace events of one kind
Events(op) == {p \in 1..Len(trace) : trace[p].op = op}

\* C8: the session is created and the checkpoint restored exactly once,
\* before the first generate call; every generate call uses that session; the
\* files of batch b are written after all generate calls of batch b and
\* before any generate call of batch b + 1.
C8_PhaseOrder ==
    harness = "main" =>
        /\ sessions <= 1 /\ restores <= 1
        /\ Cardinality(Events("session")) = sessions
        /\ Cardinality(Events("restore")) = restores
        /\ genCalls > 0 => (sessions = 1 /\ restores = 1)
        /\ \A g \in Events("generate") :
              /\ \E p \in Events("session") : p < g
              /\ \E p \in Events("restore") : p < g
        /\ \A k \in 1..Len(hr_samples_batchs) :
              \A j \in 1..Len(hr_samples_batchs[k]) :
                 /\ hr_samples_batchs[k][j].sess = 1
                 /\ lr_samples_batchs[k][j].sess = 1
        /\ \A w \in Events("write") :
              /\ Cardinality({g \in Events("generate") :
                                 trace[g].batch = trace[w].batch /\ g < w})
                    = Rounds(DefaultN)
              /\ \A g \in Events("generate") :
                    IF g < w THEN trace[g].batch <= trace[w].batch
                    ELSE trace[g].batch > trace[w].batch

----------------------------------------------------------------------------
(* generate_n called with any n *)

FixedInputs ==
    /\ texts = <<>> /\ cfgBatchSize = 1 /\ caption_path = <<"c">>
    /\ argSaveDir = None /\ ckt_path = <<"m">> \o CkptExt /\ ckptOnDisk = TRUE
    /\ dirs = {<<>>}

\* a GenerativeModel with its checkpoint restored, and generate_n(embeddings, n)
InitGenN ==
    /\ FixedInputs
    /\ cond = NoCond
    /\ cfgIm \in ImSizes
    /\ harness = "generate_n"
    /\ pc = "generate_n"
    /\ n \in 0..MaxN
    /\ i = 0
    /\ sessions = 1 /\ restores = 1 /\ graph = BuildGraph(cfgIm)
    /\ normalized_texts = << <<"a">> >>
    /\ embeddings = embed(normalized_texts)
    /\ num_embeddings = 1 /\ batch_size = 1 /\ count = 0 /\ iend = 1
    /\ embeddings_batch = embeddings /\ text_batch = normalized_texts
    /\ batch = 1 /\ save_dir = None /\ genCalls = 0
    /\ lr_samples_batchs = <<>> /\ hr_samples_batchs = <<>>
    /\ super_images = <<>> /\ files = {} /\ trace = <<>> /\ error = ""

SpecGenN == (Init \/ InitGenN) /\ [][Next]_vars

\* C7: generate_n(embeddings, n) makes exactly min(16, n) generate calls and
\* returns two lists of that length whose entries at position i come from
\* the same i-th call; a sentence never gets more than 16 samples, and the
\* main program calls it with the default n.
C7_GenerateN ==
    /\ (pc = "generate_n" /\ error = "")
          => (Len(lr_samples_batchs) = i /\ Len(hr_samples_batchs) = i)
    /\ (pc \in {"save", "returned"} /\ harness \in {"main", "generate_n"})
          => LET r == IF n < 16 THEN n ELSE 16
             IN  /\ Len(hr_samples_batchs) = r
                 /\ Len(lr_samples_batchs) = r
                 /\ r <= 16
                 /\ genCalls = batch * r
                 /\ \A k \in 1..r : \A j \in 1..Len(embeddings_batch) :
                       /\ hr_samples_batchs[k][j].call = (batch - 1) * r + k
                       /\ lr_samples_batchs[k][j].call = (batch - 1) * r + k
                       /\ hr_samples_batchs[k][j].res = "hr"
                       /\ lr_samples_batchs[k][j].res = "lr"
    /\ (harness = "main" /\ pc \in {"generate_n", "save"}) => n = 8

C7_Witness ==
    /\ harness = "generate_n" /\ pc = "returned"
    /\ n > 16 /\ genCalls = 16 /\ Len(hr_samples_batchs) = 16

----------------------------------------------------------------------------
(* save_super_images called with any number of sample batches *)

MaxGridBatch == 2       \* sentences in the batch handed to save_super_images

\* <<high-res height, high-res width, low-res height, low-res width>>
GridShapes == { <<256, 256, 64, 64>>, <<128, 256, 32, 64>>, <<64, 32, 16, 8>> }

NormTexts == {normalize(l) : l \in LineSet}

\* save_super_images(lr_sample_batchs, hr_sample_batchs, texts_batch,
\* batch_size, startID, save_dir) on N sample batches
InitGrid ==
    /\ FixedInputs
    /\ cond = NoCond
    /\ cfgIm \in ImSizes
    /\ harness = "save_super_images"
    /\ pc = "save"
    /\ batch_size \in 1..MaxGridBatch
    /\ text_batch \in [1..batch_size -> NormTexts]
    /\ count \in 0..1
    /\ save_dir \in {None, <<"o">>}
    /\ normalized_texts = text_batch
    /\ embeddings_batch = [k \in 1..batch_size |->
                              [row |-> count + k - 1, of |-> text_batch[k]]]
    /\ embeddings = embeddings_batch
    /\ num_embeddings = batch_size /\ iend = count + batch_size
    /\ \E N \in 1..MaxSamples, shape \in GridShapes :
          /\ n = N /\ i = N /\ genCalls = N
          /\ hr_samples_batchs =
                [k \in 1..N |-> Samples("hr", shape[1], shape[2], k, 1,
                                        embeddings_batch)]
          /\ lr_samples_batchs =
                [k \in 1..N |-> Samples("lr", shape[3], shape[4], k, 1,
                                        embeddings_batch)]
    /\ sessions = 1 /\ restores = 1 /\ graph = BuildGraph(cfgIm) /\ batch = 1
    /\ super_images = <<>> /\ files = {} /\ trace = <<>> /\ error = ""

NextGrid == SaveSuperImages

SpecGrid == InitGrid /\ [][NextGrid]_vars

\* a cell of the expected layout
Cell(y, x, h, w, kind, res, call, row) ==
    [y |-> y, x |-> x, h |-> h, w |-> w, kind |-> kind, res |-> res,
     call |-> call, row |-> row]

\* the layout the claim describes for N samples of tile size H x W of the
\* sentence of embedding row r, sample s coming from generate call base + s
\* + 1: the top padding, then per group a row of
\* resized low-res samples over a row of high-res samples, each after one
\* white tile, the second group below a 64-pixel separator
Layout(N, H, W, r, base) ==
    LET m == IF N < 8 THEN N ELSE 8
        width == (1 + m) * W
        group(y0, lo, hi) ==
            {Cell(y0, 0, H, W, "white", "pad", -1, -1),
             Cell(y0 + H, 0, H, W, "white", "pad", -1, -1)}
            \cup {Cell(y0, (1 + s - lo) * W, H, W, "lr_resized", "lr",
                       base + s + 1, r) :
                     s \in lo..(hi - 1)}
            \cup {Cell(y0 + H, (1 + s - lo) * W, H, W, "hr", "hr", base + s + 1, r) :
                     s \in lo..(hi - 1)}
        y2 == 128 + 2 * H + 64
    IN  {Cell(0, 0, 128, width, "white", "pad", -1, -1)}
        \cup group(128, 0, m)
        \cup (IF N > 8
              THEN {Cell(128 + 2 * H, 0, 64, width, "zeros", "pad", -1, -1)}
                   \cup group(y2, 8, N)
                   \cup (IF N < 16
                         THEN {Cell(y2, (1 + N - 8) * W, 2 * H, (16 - N) * W,
                                    "zeros", "pad", -1, -1)}
                         ELSE {})
              ELSE {})

\* C10: for N sample batches (1 <= N <= 16) of tile size H x W every image
\* save_super_images builds has width (1 + min(8, N)) * W and height
\* 128 + 2H (N <= 8) or 128 + 2H + 64 + 2H (N > 8); each group is a row of
\* resized low-res samples over the row of the high-res samples of the same
\* indices, each row after one white tile; the second group exists exactly
\* when N > 8, holds samples 8..N-1 below a 64-pixel separator and never
\* exceeds the first group's block.
C10_GridLayout ==
    (pc \in {"loop", "returned", "done"} /\ Len(hr_samples_batchs) >= 1)
        => LET N == Len(hr_samples_batchs)
               H == hr_samples_batchs[1][1].h
               W == hr_samples_batchs[1][1].w
               m == IF N < 8 THEN N ELSE 8
               base == hr_samples_batchs[1][1].call - 1
           IN  \A k \in 1..Len(super_images) :
                  LET img == super_images[k].image
                  IN  /\ N <= 16
                      /\ img.w = (1 + m) * W
                      /\ img.h = IF N > 8 THEN 128 + 2 * H + 64 + 2 * H
                                 ELSE 128 + 2 * H
                      /\ \E r \in {e.row : e \in Range(embeddings_batch)} :
                            img.cells = Layout(N, H, W, r, base)
                      /\ (\E c \in img.cells : c.y >= 128 + 2 * H) <=> N > 8
                      /\ \A c \in img.cells :
                            (c.y > 128 + 2 * H /\ c.res # "pad")
                               => (c.x + c.w <= (1 + m) * W
                                     /\ c.y + c.h <= img.h
                                     /\ c.call \in (base + 9)..(base + N))

\* a two-group grid whose second group is shorter than the first
C10_Witness ==
    /\ harness = "save_super_images" /\ pc = "returned"
    /\ Len(hr_samples_batchs) = 11
    /\ hr_samples_batchs[1][1].h # hr_samples_batchs[1][1].w
    /\ Len(super_images) = 2
    /\ \E c \in super_images[2].image.cells : c.call = 11 /\ c.res = "lr"

----------------------------------------------------------------------------
(* The conditioning sampler.  Values are fixed-point, in thousandths. *)

\* tf.exp on the log-stddevs of the model, in thousandths
ExpMilli(x) ==
    CASE x = -2 -> 135 [] x = -1 -> 368 [] x = 0 -> 1000
      [] x = 1 -> 2718 [] x = 2 -> 7389

\* tf.truncated_normal: a draw within two standard deviations, in thousandths
Epsilons == {-2000, -500, 0, 1500}

\* the learned projection of one variable scope
Projections == [mean : {-500, 1000}, log_sigma : {-1, 0, 1}]

Embeddings == {-1, 2}

\* CondGAN.generate_condition: the (mean, log-stddev) pair of an embedding
\* under the projection of the current variable scope
generate_condition(model, emb) ==
    <<model.mean * emb, model.log_sigma * emb>>

\* sample_encoded_context with the log-stddev taken for the stddev
sample_encoded_context_NoExp(emb, model, bAugmentation, epsilon) ==
    LET c_mean_logsigma == generate_condition(model, emb)
        mean == c_mean_logsigma[1]
    IN  IF bAugmentation
        THEN mean + c_mean_logsigma[2] * epsilon
        ELSE mean

\* sample_encoded_context, evaluated with the draw epsilon
sample_encoded_context(emb, model, bAugmentation, epsilon) ==
    LET c_mean_logsigma == generate_condition(model, emb)
        mean == c_mean_logsigma[1]
    IN  IF bAugmentation
        THEN LET stddev == ExpMilli(c_mean_logsigma[2])
             IN  mean + (stddev * epsilon) \div 1000
        ELSE mean

\* a conditioning node of the graph, evaluated by session.run
RunNode(node, epsilon) ==
    sample_encoded_context(cond.embeddings, cond.model[node.scope],
                           node.bAugmentation, epsilon)

InitCond ==
    /\ FixedInputs
    /\ cfgIm \in ImSizes
    /\ harness = "build_model"
    /\ pc = "build_model"
    /\ \E e \in Embeddings, m \in [Scopes -> Projections] :
          cond = [NoCond EXCEPT !.embeddings = e, !.model = m]
    /\ Blank

condFixed == <<inputsNoCond, error, normalized_texts, embeddings,
               num_embeddings, batch_size, save_dir, count, iend,
               embeddings_batch, text_batch, batch, sessions, restores, n, i,
               genCalls, lr_samples_batchs, hr_samples_batchs, super_images,
               files, dirs, trace>>

\* build_model puts the two conditioning nodes in the graph
CondBuild ==
    /\ pc = "build_model"
    /\ graph' = BuildGraph(cfgIm)
    /\ pc' = "built"
    /\ UNCHANGED <<condFixed, cond>>

\* session.run on the graph: each node draws its own epsilon
CondRun ==
    /\ pc = "built"
    /\ \E e1 \in Epsilons, e2 \in Epsilons :
          cond' = [cond EXCEPT !.ran = TRUE, !.epsilon = <<e1, e2>>,
                               !.c = RunNode(graph.c, e1),
                               !.hr_c = RunNode(graph.hr_c, e2)]
    /\ UNCHANGED <<condFixed, graph, pc>>

\* sample_encoded_context(embeddings, model, bAugmentation) under a scope,
\* evaluated
CondCall ==
    /\ pc = "built"
    /\ \E scope \in Scopes, bAugmentation \in BOOLEAN, e \in Epsilons :
          LET c == sample_encoded_context(cond.embeddings, cond.model[scope],
                                          bAugmentation, e)
          IN  cond' = [cond EXCEPT
                         !.call = [scope |-> scope,
                                   bAugmentation |-> bAugmentation,
                                   epsilon |-> e, c |-> c],
                         !.fixed = IF bAugmentation THEN @
                                   ELSE @ \cup {<<scope, c>>}]
    /\ UNCHANGED <<condFixed, graph, pc>>

NextCond == CondBuild \/ CondRun \/ CondCall

SpecCond == InitCond /\ [][NextCond]_vars

\* the (mean, log-stddev) pair of the embedding under a scope
MeanLogSigma(scope) == generate_condition(cond.model[scope], cond.embeddings)

\* C9: the conditioning code is mean + exp(log-stddev) * noise when
\* augmentation is enabled and exactly the mean, the same on every call,
\* when it is disabled; build_model obtains the Stage-I and the Stage-II code
\* by two independent calls, one under 'g_net' and one under 'hr_g_net'.
C9_ConditioningCode ==
    /\ graph # NoGraph
          => /\ graph.c = [scope |-> "g_net", bAugmentation |-> TRUE]
             /\ graph.hr_c = [scope |-> "hr_g_net", bAugmentation |-> TRUE]
    /\ cond.ran
          => /\ cond.c = MeanLogSigma("g_net")[1]
                   + (ExpMilli(MeanLogSigma("g_net")[2]) * cond.epsilon[1])
                        \div 1000
             /\ cond.hr_c = MeanLogSigma("hr_g_net")[1]
                   + (ExpMilli(MeanLogSigma("hr_g_net")[2]) * cond.epsilon[2])
                        \div 1000
    /\ cond.call # NoCall
          => cond.call.c =
                IF cond.call.bAugmentation
                THEN MeanLogSigma(cond.call.scope)[1]
                       + (ExpMilli(MeanLogSigma(cond.call.scope)[2])
                            * cond.call.epsilon) \div 1000
                ELSE MeanLogSigma(cond.call.scope)[1]
    /\ \A f \in cond.fixed : f[2] = MeanLogSigma(f[1])[1]

\* both codes drawn with different noise in one run, and the mean returned by
\* calls without augmentation under both scopes
C9_Witness ==
    /\ harness = "build_model" /\ cond.ran
    /\ cond.epsilon[1] # cond.epsilon[2]
    /\ cond.c # MeanLogSigma("g_net")[1]
    /\ cond.hr_c # MeanLogSigma("hr_g_net")[1]
    /\ cond.model["g_net"] # cond.model["hr_g_net"]
    /\ cond.call # NoCall /\ ~cond.call.bAugmentation /\ cond.call.epsilon # 0
    /\ {f[1] : f \in cond.fixed} = Scopes

----------------------------------------------------------------------------
(* drawCaption called with captions around the split column *)

MaxCaption == 63        \* caption lengths range over 0..MaxCaption

\* where a caption may hold a space: early, and around column 60
SpacePlaces == {5, 58, 59, 60, 61, 62}

\* the caption of the given length with spaces at the given indices
CaptionOf(len, spaces) ==
    [k \in 1..len |-> IF (k - 1) \in spaces THEN " " ELSE "a"]

\* heights of a one-group and of a two-group grid of 256-pixel tiles
CaptionHeights == {640, 1216}

\* drawCaption(img, caption)
InitCaption ==
    /\ FixedInputs
    /\ cond = NoCond
    /\ cfgIm \in ImSizes
    /\ harness = "drawCaption"
    /\ pc = "draw"
    /\ \E len \in 0..MaxCaption, spaces \in SUBSET SpacePlaces :
          text_batch = <<CaptionOf(len, spaces)>>
    /\ \E h \in CaptionHeights :
          super_images = <<[image |-> Filled("white", h, 2304), labels |-> {},
                            lines |-> {}, caption |-> <<>>]>>
    /\ normalized_texts = text_batch /\ embeddings = <<>>
    /\ num_embeddings = 1 /\ batch_size = 1 /\ save_dir = None
    /\ count = 0 /\ iend = 1 /\ embeddings_batch = <<>> /\ batch = 1
    /\ sessions = 0 /\ restores = 0 /\ graph = NoGraph
    /\ n = 0 /\ i = 0 /\ genCalls = 0
    /\ lr_samples_batchs = <<>> /\ hr_samples_batchs = <<>>
    /\ files = {} /\ trace = <<>> /\ error = ""

\* the call of drawCaption on the image and the caption
DrawCaption ==
    /\ pc = "draw"
    /\ super_images' = <<drawCaption(super_images[1].image, text_batch[1])>>
    /\ pc' = "returned"
    /\ UNCHANGED <<inputs, error, normalized_texts, embeddings, num_embeddings,
                   batch_size, save_dir, count, iend, embeddings_batch,
                   text_batch, batch, sessions, restores, graph, n, i,
                   genCalls, lr_samples_batchs, hr_samples_batchs, files,
                   dirs, trace>>

NextCaption == DrawCaption

SpecCaption == InitCaption /\ [][NextCaption]_vars

\* the indices >= 60 at which the caption holds a space
LateSpaces(caption) == {k \in 60..(Len(caption) - 1) : At(caption, k) = " "}

\* C11: when the caption has a space at an index >= 60, drawCaption draws
\* two lines: the text before the first such space and the text after it, so
\* that line1 + ' ' + line2 is the caption and line 1 has at least 60
\* characters; otherwise (always when the caption is shorter than 61
\* characters) it draws the whole caption on one line; nothing but the split
\* space is dropped.
C11_CaptionSplit ==
    (harness = "drawCaption" /\ pc = "returned")
        => LET caption == text_batch[1]
               lines == super_images[1].lines
               late == LateSpaces(caption)
           IN  /\ super_images[1].caption = caption
               /\ Len(caption) < 61 => late = {}
               /\ late = {}
                     => lines = {[text |-> caption, x |-> 256, y |-> 10]}
               /\ late # {}
                     => /\ Cardinality(lines) = 2
                        /\ \E l1 \in lines, l2 \in lines :
                              /\ l1.y = 10 /\ l2.y = 60
                              /\ l1.text \o <<" ">> \o l2.text = caption
                              /\ Len(l1.text) >= 60
                              /\ \A k \in late : Len(l1.text) <= k

\* a caption with spaces before and after column 60 was split at the first
\* space from column 60 on, which is not at column 60 itself
C11_Witness ==
    /\ harness = "drawCaption" /\ pc = "returned"
    /\ Cardinality(super_images[1].lines) = 2
    /\ Cardinality(LateSpaces(text_batch[1])) = 2
    /\ \E k \in 0..59 : At(text_batch[1], k) = " "
    /\ \E l \in super_images[1].lines : l.y = 10 /\ Len(l.text) = 61

----------------------------------------------------------------------------
(* The batch loop on longer inputs *)

MaxLoopLines == 6       \* lines in the caption file
MaxLoopBatch == 4       \* cfg.TEST.BATCH_SIZE ranges over 1..MaxLoopBatch

InitLoop ==
    /\ \E len \in 0..MaxLoopLines : texts = [k \in 1..len |-> <<" ", "A", "\n">>]
    /\ cfgBatchSize \in 1..MaxLoopBatch
    /\ caption_path = <<"d", "/", "c">>
    /\ argSaveDir = None
    /\ \E ck \in CkptInputs : ckt_path = ck[1] /\ ckptOnDisk = ck[2]
    /\ cfgIm \in ImSizes
    /\ harness = "main"
    /\ pc = "embed"
    /\ dirs = {Dirname(caption_path)}
    /\ cond = NoCond
    /\ Blank

\* save_super_images always returns or raises: control leaves the call
SaveReturns == pc = "save" /\ pc' \in {"loop", "returned", "raised"}

\* the program is single-threaded: whichever statement it is at is executed
Runs ==
    /\ WF_vars(EmbedText) /\ WF_vars(CheckEmbeddings) /\ WF_vars(CreateModel)
    /\ WF_vars(SetSaveDir) /\ WF_vars(BeginBatch) /\ WF_vars(Finish)
    /\ WF_vars(Generate) /\ WF_vars(Return) /\ WF_pc(SaveReturns)

SpecLoop == InitLoop /\ [][Next]_vars /\ Runs

\* the loop iterations whose batch was processed (generated and saved) and
\* held sentence index k
BatchesOf(k) ==
    {trace[w].batch : w \in {p \in Events("write") :
                                trace[p].lo <= k /\ k < trace[p].hi}}

\* on loop exit every index is in a processed batch, and an index in more
\* than one is in the realigned last batch and the batch before it
LoopCovers ==
    (harness = "main" /\ pc = "done" /\ num_embeddings >= 1)
        => \A k \in 0..(num_embeddings - 1) :
              /\ BatchesOf(k) # {}
              /\ Cardinality(BatchesOf(k)) > 1
                    => /\ num_embeddings % batch_size # 0
                       /\ k >= num_embeddings - batch_size
                       /\ k < (NumBatches - 1) * batch_size
                       /\ BatchesOf(k) = {NumBatches - 1, NumBatches}

\* C12: for num_embeddings >= 1 and cfg.TEST.BATCH_SIZE >= 1 the batch loop
\* terminates; when it has, every sentence index 0..num_embeddings-1 was in
\* at least one processed batch, and the only indices in more than one
\* batch are those of the realigned last batch that overlap the batch before.
C12_LoopTerminatesAndCovers ==
    /\ <>(pc \in {"done", "raised"})
    /\ [](harness = "main" /\ pc = "loop" => batch <= NumBatches)
    /\ []LoopCovers

\* the loop ended after a realigned last batch that overlaps the one before
C12_Witness ==
    /\ harness = "main" /\ pc = "done"
    /\ num_embeddings = 5 /\ batch_size = 3 /\ batch = 2
    /\ BatchesOf(0) = {1} /\ BatchesOf(1) = {1}
    /\ BatchesOf(2) = {1, 2} /\ BatchesOf(4) = {2}

====
